---- MODULE Spec2Model ----
(***************************************************************************)
(* Wizard navigation and conditional-routing engine of the dynamic forms   *)
(* application (src/src/controllers) and of the dynamic-wizard-forms       *)
(* library (src/packages/dynamic-wizard-forms/src).                        *)
(*                                                                         *)
(* The state is the form definition loaded at start-up, the session store  *)
(* of one user session, and a record of the last request answered.  Every  *)
(* request handler is one action.  A second specification follows two      *)
(* POSTs of one session that overlap: each works on the copy of the        *)
(* session it was given and the store keeps what was saved last.           *)
(***************************************************************************)
EXTENDS Integers, Sequences, FiniteSets, TLC

VARIABLES
    wizardForm,   \* the form definition loaded at start-up (never mutated)
    mount,        \* which router serves the session: "app" or "lib"
    session,      \* the session store: session key -> stored mapping
    entered,      \* history: form data of the last successful POST of step 1
    last,         \* the last request answered: its kind and its outcome
    inflight      \* overlapping POSTs: each one's input and its req.session

vars == <<wizardForm, mount, session, entered, last, inflight>>

(***************************************************************************)
(* Bounds of the model.                                                    *)
(***************************************************************************)
\* How far outside [1, stepCount] a requested step number may lie.
StepMargin == 1

(***************************************************************************)
(* JavaScript values: a string, an array of strings, or undefined.  A      *)
(* mapping (request body, form data, stored record) is a function from     *)
(* key strings to values.                                                  *)
(***************************************************************************)
Str(s) == [kind |-> "string", items |-> <<s>>]
Arr(xs) == [kind |-> "array", items |-> xs]
Undefined == [kind |-> "undefined", items |-> <<>>]

isString(v) == v.kind = "string"
isArray(v) == v.kind = "array"
isUndefined(v) == v.kind = "undefined"
text(v) == v.items[1]

EmptyData == [k \in {} |-> Undefined]

\* obj[key], undefined when the key is absent
prop(obj, key) == IF key \in DOMAIN obj THEN obj[key] ELSE Undefined

\* A merge that appends to what the target holds instead of replacing it.
assignAppending(target, source) ==
    [k \in (DOMAIN target) \cup (DOMAIN source) |->
        IF k \in DOMAIN source /\ k \in DOMAIN target
        THEN [kind |-> source[k].kind, items |-> target[k].items \o source[k].items]
        ELSE IF k \in DOMAIN source THEN source[k] ELSE target[k]]

\* Object.assign(target, source) / { ...target, ...source }
assign(target, source) ==
    [k \in (DOMAIN target) \cup (DOMAIN source) |->
        IF k \in DOMAIN source THEN source[k] ELSE target[k]]

\* String.prototype.trim on the strings of the model
trim(s) ==
    CASE s = " " -> ""
      [] s = " Yes" -> "Yes"
      [] OTHER -> s

RECURSIVE join(_, _)
\* Array.prototype.join
join(xs, sep) ==
    IF Len(xs) = 0 THEN ""
    ELSE IF Len(xs) = 1 THEN xs[1]
    ELSE xs[1] \o sep \o join(Tail(xs), sep)

\* String(value) of JavaScript
String(value) ==
    IF isString(value) THEN text(value)
    ELSE IF isArray(value) THEN join(value.items, ",")
    ELSE "undefined"

\* The truthiness of a value: '' and undefined are falsy, every array is truthy.
truthy(value) ==
    IF isString(value) THEN text(value) # "" ELSE isArray(value)

\* String.prototype.padStart(2, '0')
padStart(s) == IF Len(s) < 2 THEN "0" \o s ELSE s

\* hasProperty(obj, key) of helpers/dataTransformers
hasProperty(obj, key) == key \in DOMAIN obj

(***************************************************************************)
(* Form definitions (types/form-types.ts).                                 *)
(***************************************************************************)
Field(name, type, required) ==
    [name |-> name, question |-> name, type |-> type, required |-> required]

\* conditionalNavigation is the sequence of its entries, in insertion order:
\* <<[field |-> name, map |-> (value -> target step id)], ...>>
Step(id, fields, termination, terminal, nav) ==
    [id |-> id, title |-> id, fields |-> fields, isTerminationStep |-> termination,
     isTerminalStep |-> terminal, conditionalNavigation |-> nav]

Condition(stepId, fieldName, value) ==
    [stepId |-> stepId, fieldName |-> fieldName, value |-> value]

Rule(id, conditions, targetStepId) ==
    [id |-> id, conditions |-> conditions, targetStepId |-> targetStepId]

NavEntry(field, map) == [field |-> field, map |-> map]

(***************************************************************************)
(* The form definitions the model is run on.                               *)
(***************************************************************************)
\* Global rules, forward target: the scenario of the specification, between
\* two rules with the same condition, one of them with a target that names
\* no step.  The first step also carries a step-level map that names the
\* next step.
FormLegalAid ==
    [title |-> "Legal aid application", steps |-> <<
        Step("step1", <<Field("applying_for_other", "radio", TRUE)>>,
             FALSE, FALSE,
             <<NavEntry("applying_for_other", ("Yes" :> "contact_details"))>>),
        Step("contact_details", <<Field("full_name", "text", TRUE)>>,
             FALSE, FALSE, <<>>),
        Step("representative_details",
             <<Field("representative_name", "text", TRUE)>>,
             FALSE, FALSE, <<>>) >>,
     globalConditionalNavigation |-> <<
        Rule("unreachable", <<Condition("step1", "applying_for_other", "Yes")>>,
             "missing_step"),
        Rule("other", <<Condition("step1", "applying_for_other", "Yes")>>,
             "representative_details"),
        Rule("other_contact", <<Condition("step1", "applying_for_other", "Yes")>>,
             "contact_details") >>]

\* A termination step in the middle (flagged isTerminationStep, the flag of
\* types/form-types.ts), rules of different rank, one rule whose target names
\* no step, one rule that points backwards.
FormEligibility ==
    [title |-> "Eligibility", steps |-> <<
        Step("step1", <<Field("applying_for_other", "radio", TRUE)>>,
             FALSE, FALSE, <<>>),
        Step("ineligible", <<>>, TRUE, FALSE, <<>>),
        Step("details", <<Field("full_name", "text", TRUE)>>,
             FALSE, FALSE, <<>>) >>,
     globalConditionalNavigation |-> <<
        Rule("stop", <<Condition("step1", "applying_for_other", "No")>>,
             "ineligible"),
        Rule("lost", <<Condition("step1", "applying_for_other", "No"),
                       Condition("details", "full_name", "Yes")>>,
             "missing_step"),
        Rule("again", <<Condition("step1", "applying_for_other", "Yes"),
                        Condition("details", "full_name", "Yes")>>,
             "step1") >>]

\* Step-level (legacy) navigation maps only.
FormLegacy ==
    [title |-> "Legacy", steps |-> <<
        Step("step1", <<Field("applying_for_other", "radio", TRUE)>>,
             FALSE, FALSE,
             <<NavEntry("applying_for_other",
                        ("Yes" :> "step3") @@ ("No" :> "step1"))>>),
        Step("step2", <<Field("full_name", "text", TRUE)>>,
             FALSE, FALSE,
             <<NavEntry("full_name",
                        ("Yes" :> "step1") @@ ("default" :> "missing_step"))>>),
        Step("step3", <<Field("topics", "checkboxes", TRUE)>>,
             FALSE, TRUE,
             <<NavEntry("topics", ("Yes" :> "") @@ ("default" :> "step2"))>>) >>,
     globalConditionalNavigation |-> <<>>]

\* No routing at all; a field name used by two steps, two fields in a step.
FormPlain ==
    [title |-> "Plain", steps |-> <<
        Step("step1", <<Field("topics", "checkboxes", TRUE),
                        Field("full_name", "text", FALSE)>>,
             FALSE, FALSE, <<>>),
        Step("step2", <<Field("full_name", "text", TRUE)>>,
             FALSE, FALSE, <<>>) >>,
     globalConditionalNavigation |-> <<>>]

\* A date field, sent by the GOV.UK date input as three components.  Two
\* rules with the same condition: the first targets the step of its
\* condition, the second the step after it.
FormDated ==
    [title |-> "Dated", steps |-> <<
        Step("step1", <<Field("applying_for_other", "radio", TRUE)>>,
             FALSE, FALSE, <<>>),
        Step("birth", <<Field("date_of_birth", "date", TRUE)>>,
             FALSE, FALSE, <<>>) >>,
     globalConditionalNavigation |-> <<
        Rule("stay", <<Condition("step1", "applying_for_other", "Yes")>>,
             "step1"),
        Rule("birth", <<Condition("step1", "applying_for_other", "Yes")>>,
             "birth") >>]

\* A single step with two required fields.
FormContact ==
    [title |-> "Contact", steps |-> <<
        Step("contact", <<Field("full_name", "text", TRUE),
                          Field("topics", "checkboxes", TRUE)>>,
             FALSE, FALSE, <<>>) >>,
     globalConditionalNavigation |-> <<>>]

Forms == {FormLegalAid, FormEligibility, FormLegacy, FormPlain, FormDated,
          FormContact}

\* A configuration file without a title, and one whose steps array is empty.
ConfigUntitled ==
    [steps |-> FormPlain.steps, globalConditionalNavigation |-> <<>>]
ConfigEmpty ==
    [title |-> "Empty", steps |-> <<>>, globalConditionalNavigation |-> <<>>]

\* The parsed configuration files a loader may be given.
Configurations == Forms \cup {ConfigUntitled, ConfigEmpty}

(***************************************************************************)
(* Loading a configuration (dynamicFormController.ts, types.ts of the      *)
(* library).  A loader that throws yields no form.                         *)
(***************************************************************************)
isWizardForm(value) ==
    hasProperty(value, "title") /\ hasProperty(value, "steps")

\* loadWizardConfig: the parsed value when isWizardForm accepts it
loadWizardConfig(parsed) ==
    IF ~isWizardForm(parsed) THEN {} ELSE {parsed}

\* loadWizardFromJSON: the parsed value when it has a title, at least one
\* step, and every step has an id, a title and a fields array
loadWizardFromJSON(parsed) ==
    IF ~hasProperty(parsed, "title") \/ parsed.title = "" THEN {}
    ELSE IF ~hasProperty(parsed, "steps") \/ Len(parsed.steps) = 0 THEN {}
    ELSE IF \E i \in 1..Len(parsed.steps) :
                \/ parsed.steps[i].id = ""
                \/ parsed.steps[i].title = ""
                \/ ~hasProperty(parsed.steps[i], "fields")
    THEN {}
    ELSE {parsed}

\* validateFormConfig of the form builder (formBuilderController.ts): the
\* errors collected for a parsed configuration, and valid when there are
\* none.  validateConditionalNavigation only asks that the value of
\* conditionalNavigation and the map of each of its fields are objects, which
\* they are in every configuration here; it never reads the targets.
validateFormConfig(data) ==
    LET steps == data.steps
        blank(record, key) ==
            ~hasProperty(record, key) \/ trim(record[key]) = ""
        validateField(field) ==
            (IF blank(field, "question") THEN {"question is required"} ELSE {})
            \cup (IF ~hasProperty(field, "type") THEN {"type is required"} ELSE {})
            \cup (IF blank(field, "name") THEN {"name is required"} ELSE {})
        validateStepId(i) ==
            IF blank(steps[i], "id") THEN {"id is required"}
            ELSE IF \E j \in 1..(i - 1) : steps[j].id = steps[i].id
            THEN {"duplicate step ID"} ELSE {}
        validateStepTitle(i) ==
            IF blank(steps[i], "title") THEN {"title is required"} ELSE {}
        validateStepFields(i) ==
            IF ~hasProperty(steps[i], "fields") THEN {"must have a fields array"}
            ELSE UNION {validateField(steps[i].fields[f]) :
                           f \in 1..Len(steps[i].fields)}
        validateConditionalNavigation(i) == {}
        errors ==
            (IF blank(data, "title") THEN {"Form title is required"} ELSE {})
            \cup (IF hasProperty(data, "steps") /\ Len(steps) = 0
                  THEN {"Form must have at least one step"} ELSE {})
            \cup (IF ~hasProperty(data, "steps") THEN {} ELSE
                  UNION {validateStepId(i) \cup validateStepTitle(i)
                            \cup validateStepFields(i)
                            \cup validateConditionalNavigation(i) :
                         i \in 1..Len(steps)})
    IN  IF ~hasProperty(data, "steps")
        THEN [valid |-> FALSE, errors |-> errors \cup {"Form must have a steps array"}]
        ELSE [valid |-> errors = {}, errors |-> errors]

\* WIZARD_FORM_CONFIG of the application, config.wizardForm of the library:
\* the forms a router can be serving.
ActiveForms(router) ==
    UNION {IF router = "app" THEN loadWizardConfig(c) ELSE loadWizardFromJSON(c) :
              c \in Configurations}

\* The only form id the application serves (dynamicFormController.ts:254).
LegalAidFormId == "legal-aid-application"
FormIds == {LegalAidFormId, "unknown-form"}

(***************************************************************************)
(* Request inputs.                                                         *)
(***************************************************************************)
Actions == {"previous", "next", "continue", "submit", ""}
ForwardActions == {"next", "continue", "submit"}

\* The options of a checkboxes field.
Options == <<"Yes", "No", "Maybe">>
\* The number of options ticked when a list is submitted.
MaxSelected == 2
\* A body parser gives a list when several options are ticked (here the
\* first MaxSelected), a string when one is, and a JSON client may send [].
Selections ==
    {<<>>, SubSeq(Options, 1, IF MaxSelected < Len(Options) THEN MaxSelected
                              ELSE Len(Options))}

\* What a browser or client may send for a field of each type; for a date
\* field this is what it may send under the bare field name.
SubmittedValues(type) ==
    CASE type = "checkboxes" -> {Arr(xs) : xs \in Selections} \cup {Str("Yes")}
      [] type = "text" -> {Str(""), Str(" "), Str("Yes")}
      [] type = "date" -> {Str("")}
      [] OTHER -> {Str("Yes"), Str("No")}

\* The components of a date input and what may be typed into each.
DateParts == {"day", "month", "year"}
SubmittedParts(part) ==
    CASE part = "day" -> {Str("5")}
      [] part = "month" -> {Str("3")}
      [] OTHER -> {Str(" "), Str("1990")}

\* The keys a field is submitted under, with the values each may carry:
\* the GOV.UK date input posts name-day, name-month and name-year.
BodyKeys(field) ==
    IF field.type = "date"
    THEN [k \in {field.name} \cup {field.name \o "-" \o part : part \in DateParts} |->
            IF k = field.name THEN SubmittedValues(field.type)
            ELSE SubmittedParts(CHOOSE part \in DateParts :
                                    k = field.name \o "-" \o part)]
    ELSE [k \in {field.name} |-> SubmittedValues(field.type)]

\* The request bodies for a step: each key absent or sent with a value.
Bodies(fields) ==
    LET keys == UNION {DOMAIN BodyKeys(fields[i]) : i \in 1..Len(fields)}
        valuesOf(k) == BodyKeys(fields[CHOOSE i \in 1..Len(fields) :
                                          k \in DOMAIN BodyKeys(fields[i])])[k]
    IN  UNION { {b \in [present -> UNION {valuesOf(k) : k \in keys}] :
                    \A k \in present : b[k] \in valuesOf(k)}
                : present \in SUBSET keys }

(***************************************************************************)
(* Responses.                                                              *)
(***************************************************************************)
NoResponse ==
    [kind |-> "none", status |-> 0, target |-> "", step |-> 0,
     formData |-> EmptyData, inputErrors |-> EmptyData,
     errorSummaryList |-> <<>>, isTerminalStep |-> FALSE]

\* res.redirect(`/dynamic-forms/${formId}?step=${step}`)
RedirectStep(n) ==
    [NoResponse EXCEPT !.kind = "redirect", !.status = 302,
                       !.target = "step", !.step = n]
\* res.redirect(`/dynamic-forms/${formId}/success`)
RedirectSuccess ==
    [NoResponse EXCEPT !.kind = "redirect", !.status = 302, !.target = "success"]
\* res.redirect('/dynamic-forms'): the form list, the exit of the wizard
RedirectExit ==
    [NoResponse EXCEPT !.kind = "redirect", !.status = 302, !.target = "exit"]
\* res.status(code).render('error', ...) / res.status(code).json({error})
ErrorResponse(code) ==
    [NoResponse EXCEPT !.kind = "error", !.status = code]
\* res.render('dynamic-forms/wizard-step', ...) without errors
RenderStep(n, data, terminal) ==
    [NoResponse EXCEPT !.kind = "render", !.status = 200, !.target = "step",
                       !.step = n, !.formData = data, !.isTerminalStep = terminal]
\* res.render('dynamic-forms/success', ...)
RenderSuccess(data) ==
    [NoResponse EXCEPT !.kind = "render", !.status = 200, !.target = "success",
                       !.formData = data]

(***************************************************************************)
(* The session store (scripts/helpers/sessionHelpers).                     *)
(***************************************************************************)
\* A store that keeps nothing but the entry it writes.
storeSessionDataAlone(sess, key, data) == [k \in {key} |-> data]

\* storeSessionData(req, key, data)
storeSessionData(sess, key, data) ==
    [k \in (DOMAIN sess) \cup {key} |-> IF k = key THEN data ELSE sess[k]]

\* getSessionData(req, key) ?? {}
getSessionData(sess, key) ==
    IF key \in DOMAIN sess THEN sess[key] ELSE EmptyData

EmptySession == [k \in {} |-> EmptyData]

stepKey(formId, n) == "wizardForm_" \o formId \o "_step_" \o ToString(n)
formKey(formId) == "wizardForm_" \o formId

(***************************************************************************)
(* Step validation of the application (dynamicFormController.ts).          *)
(***************************************************************************)
\* extractFormFields(body, keys) of helpers/dataTransformers: the named
\* keys of the body, a key the body lacks read as the empty string.
extractFormFields(body, keys) ==
    [k \in keys |-> IF k \in DOMAIN body THEN body[k] ELSE Str("")]

\* dateStringFromThreeFields(day, month, year) of helpers/dataTransformers:
\* the one composed date value, year-month-day with two-digit month and day.
dateStringFromThreeFields(day, month, year) ==
    year \o "-" \o padStart(month) \o "-" \o padStart(day)

buildFieldNamesList(processedFields) ==
    UNION {IF processedFields[i].type = "date"
           THEN {processedFields[i].name \o "-" \o part : part \in DateParts}
                \cup {processedFields[i].name \o "[" \o part \o "]" : part \in DateParts}
                \cup {processedFields[i].name \o "_" \o part : part \in DateParts}
           ELSE {processedFields[i].name}
           : i \in 1..Len(processedFields)}

\* typeof value === 'string' ? value : ''
stringOrEmpty(value) == IF isString(value) THEN text(value) ELSE ""

extractDateComponents(fieldName, rawFormData) ==
    LET sep == IF \E part \in DateParts :
                      (fieldName \o "-" \o part) \in DOMAIN rawFormData
               THEN "-" ELSE "_"
    IN  [part \in DateParts |->
            stringOrEmpty(prop(rawFormData, fieldName \o sep \o part))]

processDateField(fieldName, rawFormData) ==
    LET date == extractDateComponents(fieldName, rawFormData)
        hasAllComponents == \A part \in DateParts : date[part] # ""
        component(k) == CHOOSE part \in DateParts :
                            k \in {fieldName \o "_" \o part,
                                   fieldName \o "[" \o part \o "]"}
    IN  [k \in {fieldName} \cup {fieldName \o "_" \o part : part \in DateParts}
                \cup {fieldName \o "[" \o part \o "]" : part \in DateParts} |->
            IF k # fieldName THEN Str(date[component(k)])
            ELSE IF hasAllComponents
            THEN Str(dateStringFromThreeFields(date["day"], date["month"], date["year"]))
            ELSE Str("")]

processRegularField(fieldName, rawFormData) ==
    LET value == prop(rawFormData, fieldName)
    IN  [k \in {fieldName} |->
            IF isString(value) THEN value
            ELSE IF isArray(value) THEN value
            ELSE Str(String(value))]

RECURSIVE convertFields(_, _, _)
\* the loop of extractAndConvertFormData over the fields from position i on
convertFields(processedFields, rawFormData, i) ==
    IF i > Len(processedFields) THEN EmptyData
    ELSE assign(IF processedFields[i].type = "date"
                THEN processDateField(processedFields[i].name, rawFormData)
                ELSE processRegularField(processedFields[i].name, rawFormData),
                convertFields(processedFields, rawFormData, i + 1))

extractAndConvertFormData(body, processedFields) ==
    convertFields(processedFields,
                  extractFormFields(body, buildFieldNamesList(processedFields)), 1)

extractDateComponentsForValidation(fieldName, data) ==
    LET sep == IF \E part \in DateParts :
                      (fieldName \o "-" \o part) \in DOMAIN data
               THEN "-" ELSE "_"
    IN  [part \in DateParts |->
            trim(stringOrEmpty(prop(data, fieldName \o sep \o part)))]

validateDateField(fieldName, data) ==
    \A part \in DateParts :
        extractDateComponentsForValidation(fieldName, data)[part] # ""

validateRegularField(fieldName, data) ==
    LET value == prop(data, fieldName)
        hasValue == IF isString(value) THEN text(value) # ""
                    ELSE isArray(value)
        isEmptyString == isString(value) /\ trim(text(value)) = ""
    IN  hasValue /\ ~isEmptyString

\* The indexes of the fields that fail, in the order validateStepData meets them.
failingFields(config, data) ==
    SelectSeq([i \in 1..Len(config) |-> i],
              LAMBDA i : config[i].required
                         /\ ~(IF config[i].type = "date"
                              THEN validateDateField(config[i].name, data)
                              ELSE validateRegularField(config[i].name, data)))

\* A validateStepData that lists the failing fields last field first.
validateStepDataLastFirst(config, data) ==
    LET failing == failingFields(config, data)
        count == Len(failing)
    IN  [errors |-> [n \in {config[failing[j]].name : j \in 1..count} |->
                        Str(n \o " is required")],
         errorSummaryList |->
            [j \in 1..count |->
                [text |-> config[failing[count + 1 - j]].question \o " is required",
                 href |-> "#" \o config[failing[count + 1 - j]].name]]]

validateStepData(config, data) ==
    LET failing == failingFields(config, data)
        message(i) == config[i].question \o " is required"
    IN  [errors |-> [n \in {config[failing[j]].name : j \in 1..Len(failing)} |->
                        Str(message(CHOOSE i \in 1..Len(config) :
                                /\ config[i].name = n
                                /\ \E j \in 1..Len(failing) : failing[j] = i
                                /\ \A j \in 1..Len(failing) :
                                       config[failing[j]].name = n => failing[j] <= i))],
         errorSummaryList |->
            [j \in 1..Len(failing) |->
                [text |-> message(failing[j]),
                 href |-> IF config[failing[j]].type = "date"
                          THEN "#" \o config[failing[j]].name \o "-day"
                          ELSE "#" \o config[failing[j]].name]]]

\* A conversion that stores lists as they were submitted.
storeAsSubmitted(formData) == formData

convertFormDataForSession(formData) ==
    [k \in DOMAIN formData |->
        IF isArray(formData[k]) THEN Str(join(formData[k].items, ", "))
        ELSE formData[k]]

RECURSIVE collectSteps(_, _, _, _)
\* the loop of consolidateFormData / getConsolidatedFormData: steps from..upTo
collectSteps(sess, formId, from, upTo) ==
    IF from > upTo THEN EmptyData
    ELSE assign(getSessionData(sess, stepKey(formId, from)),
                collectSteps(sess, formId, from + 1, upTo))

\* A consolidation that leaves out the step just submitted, the last one.
consolidateEarlierSteps(sess, formId, totalSteps) ==
    storeSessionData(sess, formKey(formId),
                     collectSteps(sess, formId, 1, totalSteps - 1))

consolidateFormData(sess, formId, totalSteps) ==
    storeSessionData(sess, formKey(formId),
                     collectSteps(sess, formId, 1, totalSteps))

(***************************************************************************)
(* Step-level navigation of the application (wizardFormHelpers.ts).        *)
(***************************************************************************)
\* No step id, the null of a lookup that found nothing.
NoTarget == [found |-> FALSE, id |-> ""]
Target(id) == [found |-> TRUE, id |-> id]

\* fieldValue[0] of an array, the value itself otherwise
getValueToCheck(fieldValue) ==
    IF isArray(fieldValue)
    THEN (IF Len(fieldValue.items) > 0 THEN Str(fieldValue.items[1]) ELSE Undefined)
    ELSE fieldValue

\* The property key JavaScript reads for navigationMap[valueToCheck].
propertyKey(value) == IF isUndefined(value) THEN "undefined" ELSE text(value)

getValidNavigationTarget(target) ==
    IF target # "" THEN Target(target) ELSE NoTarget

\* A findNavigationTarget that reads the "default" entry before the exact one.
findNavigationTargetDefaultFirst(navigationMap, valueToCheck) ==
    IF hasProperty(navigationMap, "default")
    THEN getValidNavigationTarget(navigationMap["default"])
    ELSE IF hasProperty(navigationMap, propertyKey(valueToCheck))
    THEN getValidNavigationTarget(navigationMap[propertyKey(valueToCheck)])
    ELSE NoTarget

findNavigationTarget(navigationMap, valueToCheck) ==
    IF hasProperty(navigationMap, propertyKey(valueToCheck))
    THEN getValidNavigationTarget(navigationMap[propertyKey(valueToCheck)])
    ELSE IF hasProperty(navigationMap, "default")
    THEN getValidNavigationTarget(navigationMap["default"])
    ELSE NoTarget

RECURSIVE determineNextStepFrom(_, _, _)
\* the loop of determineNextStep over the entries from position i on
determineNextStepFrom(nav, formData, i) ==
    IF i > Len(nav) THEN NoTarget
    ELSE IF ~hasProperty(formData, nav[i].field)
            \/ formData[nav[i].field] = Str("")
    THEN determineNextStepFrom(nav, formData, i + 1)
    ELSE LET target == findNavigationTarget(nav[i].map,
                                            getValueToCheck(formData[nav[i].field]))
         IN  IF target.found THEN target
             ELSE determineNextStepFrom(nav, formData, i + 1)

determineNextStep(currentStep, formData) ==
    determineNextStepFrom(currentStep.conditionalNavigation, formData, 1)

\* findIndex(step => step.id === stepId), 0-based, -1 when no step has the id
findIndex(steps, stepId) ==
    IF \E i \in 1..Len(steps) : steps[i].id = stepId
    THEN (CHOOSE i \in 1..Len(steps) :
             /\ steps[i].id = stepId
             /\ \A j \in 1..(i - 1) : steps[j].id # stepId) - 1
    ELSE -1

findStepIndexById(steps, stepId) ==
    IF findIndex(steps, stepId) >= 0 THEN findIndex(steps, stepId) + 1 ELSE -1

navigateToPrevious(stepNumber) ==
    IF stepNumber > 1 THEN RedirectStep(stepNumber - 1) ELSE NoResponse

navigateToNext(stepNumber, totalSteps, currentStep, allSteps, formData) ==
    LET nextStepId == determineNextStep(currentStep, formData)
        nextStepNumber == findStepIndexById(allSteps, nextStepId.id)
    IN  IF nextStepId.found /\ nextStepId.id # "" /\ nextStepNumber > 0
        THEN RedirectStep(nextStepNumber)
        ELSE IF stepNumber < totalSteps
        THEN RedirectStep(stepNumber + 1)
        ELSE NoResponse

handleSubmit(stepNumber, totalSteps) ==
    IF stepNumber = totalSteps THEN RedirectSuccess ELSE NoResponse

handleConditionalNavigation(action, stepNumber, totalSteps, currentStep, allSteps, formData) ==
    CASE action = "previous" -> navigateToPrevious(stepNumber)
      [] action = "next" ->
            navigateToNext(stepNumber, totalSteps, currentStep, allSteps, formData)
      [] action = "submit" -> handleSubmit(stepNumber, totalSteps)
      [] OTHER -> RedirectStep(stepNumber)

(***************************************************************************)
(* Global navigation rules (wizardFormHelpers.ts, navigation helpers).     *)
(***************************************************************************)
getMaxStepIndexFromRule(rule, allSteps) ==
    LET indexes == {findIndex(allSteps, rule.conditions[c].stepId) :
                        c \in 1..Len(rule.conditions)} \cup {-1}
    IN  CHOOSE m \in indexes : \A x \in indexes : x <= m

\* An evaluateRule that reads the bare field name before "stepId.fieldName".
evaluateRuleBareFirst(rule, formData) ==
    \A c \in 1..Len(rule.conditions) :
        LET condition == rule.conditions[c]
            fieldKey == condition.stepId \o "." \o condition.fieldName
            fieldValue == IF hasProperty(formData, condition.fieldName)
                          THEN formData[condition.fieldName]
                          ELSE prop(formData, fieldKey)
        IN  getValueToCheck(fieldValue) = Str(condition.value)

evaluateRule(rule, formData) ==
    \A c \in 1..Len(rule.conditions) :
        LET condition == rule.conditions[c]
            fieldKey == condition.stepId \o "." \o condition.fieldName
            fieldValue == IF hasProperty(formData, fieldKey)
                          THEN formData[fieldKey]
                          ELSE prop(formData, condition.fieldName)
            valueToCheck == getValueToCheck(fieldValue)
        IN  valueToCheck = Str(condition.value)

\* [...rules].sort((a, b) => max(b) - max(a)): the positions of the rules in
\* sorted order; the sort is stable, equal ranks keep their declaration order.
sortedRules(rules, allSteps) ==
    LET rank(i) == getMaxStepIndexFromRule(rules[i], allSteps)
        before(i, j) == rank(i) > rank(j) \/ (rank(i) = rank(j) /\ i < j)
    IN  [p \in 1..Len(rules) |->
            CHOOSE i \in 1..Len(rules) :
                Cardinality({j \in 1..Len(rules) : before(j, i)}) = p - 1]

\* The position (in the configuration) of the rule evaluateGlobalNavigation
\* returns the target of, 0 when it returns null.
selectedRule(rules, formData, allSteps) ==
    LET order == sortedRules(rules, allSteps)
        fires(p) == /\ evaluateRule(rules[order[p]], formData)
                    /\ \E s \in 1..Len(allSteps) :
                           allSteps[s].id = rules[order[p]].targetStepId
    IN  IF \E p \in 1..Len(rules) : fires(p)
        THEN order[CHOOSE p \in 1..Len(rules) :
                       fires(p) /\ \A q \in 1..(p - 1) : ~fires(q)]
        ELSE 0

evaluateGlobalNavigation(rules, formData, allSteps) ==
    IF selectedRule(rules, formData, allSteps) = 0 THEN NoTarget
    ELSE Target(rules[selectedRule(rules, formData, allSteps)].targetStepId)

\* trackVisitedStep: what the session holds after the call.  Array.isArray
\* is false of the stored object, and then no step reads as visited.
trackVisitedStep(sess, formId, stepNumber) ==
    LET visitedKey == "wizardForm_" \o formId \o "_visitedSteps"
        visitedStepsData == getSessionData(sess, visitedKey)
        visitedSteps == IF hasProperty(visitedStepsData, "kind")
                           /\ isArray(visitedStepsData)
                        THEN visitedStepsData.items ELSE <<>>
        pushed == Append(visitedSteps, stepNumber)
    IN  IF \A i \in 1..Len(visitedSteps) : visitedSteps[i] # stepNumber
        THEN storeSessionData(sess, visitedKey,
                 [k \in {"steps"} |->
                     Str(join([i \in 1..Len(pushed) |->
                              ToString(pushed[i])], ","))])
        ELSE sess

getConsolidatedFormData(sess, formId, currentStepNumber) ==
    collectSteps(sess, formId, 1, currentStepNumber)

\* A processGlobalNavigation that follows a matching rule whatever the action.
processGlobalNavigationAnyAction(form, consolidatedData, action, currentStepNumber) ==
    LET targetStepId == evaluateGlobalNavigation(form.globalConditionalNavigation,
                                                 consolidatedData, form.steps)
        targetStepNumber == findIndex(form.steps, targetStepId.id) + 1
    IN  IF targetStepId.found /\ targetStepNumber > 0
           /\ targetStepNumber # currentStepNumber
        THEN RedirectStep(targetStepNumber)
        ELSE NoResponse

\* A processGlobalNavigation that goes on to the next matching rule when the
\* guard rejects a target.
processGlobalNavigationTryingNext(form, consolidatedData, action, currentStepNumber) ==
    LET rules == form.globalConditionalNavigation
        order == sortedRules(rules, form.steps)
        number(p) == findIndex(form.steps, rules[order[p]].targetStepId) + 1
        passes(p) == /\ evaluateRule(rules[order[p]], consolidatedData)
                     /\ number(p) > 0
                     /\ number(p) # currentStepNumber
                     /\ \/ number(p) > currentStepNumber
                        \/ form.steps[number(p)].isTerminationStep
    IN  IF action \in {"next", "continue", "submit"}
           /\ \E p \in 1..Len(rules) : passes(p)
        THEN RedirectStep(number(CHOOSE p \in 1..Len(rules) :
                                     passes(p) /\ \A q \in 1..(p - 1) : ~passes(q)))
        ELSE NoResponse

\* The redirect of processGlobalNavigation, NoResponse when it returns false.
processGlobalNavigation(form, consolidatedData, action, currentStepNumber) ==
    LET targetStepId == evaluateGlobalNavigation(form.globalConditionalNavigation,
                                                 consolidatedData, form.steps)
        targetStepIndex == findIndex(form.steps, targetStepId.id)
        targetStepNumber == targetStepIndex + 1
    IN  IF targetStepId.found /\ action \in {"next", "continue", "submit"}
           /\ targetStepIndex # -1
        THEN IF targetStepNumber = currentStepNumber THEN NoResponse
             ELSE IF targetStepNumber < currentStepNumber
                     /\ ~form.steps[targetStepNumber].isTerminationStep
             THEN NoResponse
             ELSE RedirectStep(targetStepNumber)
        ELSE NoResponse

handleWizardNavigation(sess, form, formId, action, stepNumber, formData) ==
    LET currentStep == form.steps[stepNumber]
        globalRedirect ==
            processGlobalNavigation(form,
                getConsolidatedFormData(sess, formId, stepNumber),
                action, stepNumber)
    IN  IF currentStep.isTerminationStep THEN RedirectExit
        ELSE IF globalRedirect.kind = "redirect" THEN globalRedirect
        ELSE handleConditionalNavigation(action, stepNumber, Len(form.steps),
                                         currentStep, form.steps, formData)

(***************************************************************************)
(* The library's validator (packages/dynamic-wizard-forms/src/validator.ts)*)
(***************************************************************************)
sanitizeFormData(rawData) ==
    [k \in DOMAIN rawData |->
        IF isString(rawData[k]) THEN Str(trim(text(rawData[k])))
        ELSE Arr([i \in 1..Len(rawData[k].items) |-> trim(rawData[k].items[i])])]

\* What extractStepFields takes from rawData for one field.
extractField(field, rawData) ==
    IF field.name \notin DOMAIN rawData THEN EmptyData
    ELSE IF field.type = "date"
    THEN LET value(part) == prop(rawData, field.name \o "-" \o part)
             given == {part \in DateParts : truthy(value(part))}
         IN  [k \in (IF given = DateParts THEN {field.name} ELSE {})
                     \cup {field.name \o "_" \o part : part \in given} |->
                 IF k = field.name
                 THEN Str(String(value("year")) \o "-"
                          \o padStart(String(value("month"))) \o "-"
                          \o padStart(String(value("day"))))
                 ELSE Str(String(value(CHOOSE part \in given :
                                          k = field.name \o "_" \o part)))]
    ELSE [k \in {field.name} |->
            IF isArray(rawData[k]) THEN rawData[k] ELSE Str(String(rawData[k]))]

RECURSIVE extractStepFieldsFrom(_, _, _)
\* the loop of extractStepFields over the fields from position i on
extractStepFieldsFrom(fields, rawData, i) ==
    IF i > Len(fields) THEN EmptyData
    ELSE assign(extractField(fields[i], rawData),
                extractStepFieldsFrom(fields, rawData, i + 1))

extractStepFields(fields, rawData) == extractStepFieldsFrom(fields, rawData, 1)

\* The error message of validateField, the empty string for its null.
validateField(field, value) ==
    IF field.required
       /\ (isUndefined(value) \/ value = Str("")
           \/ (isArray(value) /\ Len(value.items) = 0))
    THEN field.question \o " is required"
    ELSE IF isUndefined(value) \/ value = Str("") THEN ""
    ELSE CASE field.type \in {"text", "textarea"} ->
                IF ~isString(value) THEN field.question \o " must be text" ELSE ""
           [] field.type \in {"radio", "select"} ->
                IF ~isString(value)
                THEN field.question \o " must have a single selection" ELSE ""
           [] field.type = "checkboxes" ->
                IF ~isArray(value) THEN field.question \o " must be an array" ELSE ""
           [] OTHER -> ""

\* validateStep: the errors mapping (isValid is its emptiness).
validateStep(fields, formData) ==
    LET error(i) == validateField(fields[i], prop(formData, fields[i].name))
        failing == {i \in 1..Len(fields) : error(i) # ""}
    IN  [n \in {fields[i].name : i \in failing} |->
            Str(error(CHOOSE i \in failing :
                    fields[i].name = n
                    /\ \A j \in failing : fields[j].name = n => j <= i))]

createErrorSummary(fields, errors) ==
    LET failing == SelectSeq([i \in 1..Len(fields) |-> i],
                             LAMBDA i : fields[i].name \in DOMAIN errors)
    IN  [j \in 1..Len(failing) |->
            [text |-> text(errors[fields[failing[j]].name]),
             href |-> "#" \o fields[failing[j]].name]]

(***************************************************************************)
(* The library's navigator (packages/dynamic-wizard-forms/src/navigator.ts)*)
(***************************************************************************)
isValidStepNumber(form, stepNumber) ==
    stepNumber >= 1 /\ stepNumber <= Len(form.steps)

RECURSIVE WizardNavigator_determineNextStepFrom(_, _, _)
\* the loop of WizardNavigator.determineNextStep from entry i on
WizardNavigator_determineNextStepFrom(nav, formData, i) ==
    IF i > Len(nav) THEN NoTarget
    ELSE IF ~hasProperty(formData, nav[i].field)
    THEN WizardNavigator_determineNextStepFrom(nav, formData, i + 1)
    ELSE LET key == propertyKey(getValueToCheck(formData[nav[i].field]))
         IN  IF key \in DOMAIN nav[i].map THEN Target(nav[i].map[key])
             ELSE IF "default" \in DOMAIN nav[i].map
             THEN Target(nav[i].map["default"])
             ELSE WizardNavigator_determineNextStepFrom(nav, formData, i + 1)

WizardNavigator_determineNextStep(currentStep, formData) ==
    WizardNavigator_determineNextStepFrom(currentStep.conditionalNavigation,
                                          formData, 1)

\* getNextStepNumber: a step number, 0 for its null.
getNextStepNumber(form, currentStepNumber, formData) ==
    LET nextStepId == WizardNavigator_determineNextStep(
                          form.steps[currentStepNumber], formData)
    IN  IF nextStepId.found /\ nextStepId.id # ""
        THEN findStepIndexById(form.steps, nextStepId.id)
        ELSE IF currentStepNumber + 1 <= Len(form.steps)
        THEN currentStepNumber + 1
        ELSE 0

\* getPreviousStepNumber: a step number, 0 for its null.
getPreviousStepNumber(currentStepNumber) ==
    IF currentStepNumber - 1 >= 1 THEN currentStepNumber - 1 ELSE 0

(***************************************************************************)
(* The library's controller (packages/dynamic-wizard-forms/src/middleware) *)
(***************************************************************************)
\* The formId and sessionPrefix createWizard configures by default.
LibFormId == "wizard-form"
getSessionKey(formId, key) == "wizard_" \o formId \o "_" \o key

handleNavigation(form, bodyAction, currentStepNumber, formData) ==
    LET action == IF bodyAction = "" THEN "next" ELSE bodyAction
    IN  CASE action = "previous" ->
                IF getPreviousStepNumber(currentStepNumber) # 0
                THEN RedirectStep(getPreviousStepNumber(currentStepNumber))
                ELSE RedirectStep(currentStepNumber)
          [] action = "next" ->
                IF getNextStepNumber(form, currentStepNumber, formData) # 0
                THEN RedirectStep(getNextStepNumber(form, currentStepNumber, formData))
                ELSE RedirectSuccess
          [] action = "submit" -> RedirectSuccess
          [] OTHER -> RedirectStep(currentStepNumber)

(***************************************************************************)
(* Request handlers: the session store and the response each one leaves.   *)
(***************************************************************************)
Outcome(sess, res) == [session |-> sess, response |-> res]

\* renderStepWithErrors: status 400 and the wizard-step template
renderStepWithErrors(stepNumber, formData, errors, errorSummaryList, terminal) ==
    [NoResponse EXCEPT !.kind = "render", !.status = 400, !.target = "step",
                       !.step = stepNumber, !.formData = formData,
                       !.inputErrors = errors,
                       !.errorSummaryList = errorSummaryList,
                       !.isTerminalStep = terminal]

getDynamicForm(sess, form, formId, stepNumber) ==
    IF formId # LegalAidFormId THEN Outcome(sess, ErrorResponse(404))
    ELSE IF stepNumber - 1 < 0 \/ stepNumber - 1 >= Len(form.steps)
    THEN Outcome(sess, ErrorResponse(400))
    ELSE Outcome(sess, RenderStep(stepNumber,
                                  getSessionData(sess, formKey(formId)),
                                  form.steps[stepNumber].isTerminalStep))

postDynamicForm(sess, form, formId, stepNumber, body, action) ==
    IF formId # LegalAidFormId THEN Outcome(sess, ErrorResponse(404))
    ELSE IF stepNumber - 1 < 0 \/ stepNumber - 1 >= Len(form.steps)
    THEN Outcome(sess, ErrorResponse(400))
    ELSE
    LET currentStep == form.steps[stepNumber]
        processedFields == currentStep.fields
        formData == extractAndConvertFormData(body, processedFields)
        validation == validateStepData(processedFields, formData)
        stored == storeSessionData(sess, stepKey(formId, stepNumber),
                                   convertFormDataForSession(formData))
        consolidated ==
            IF action = "submit" /\ stepNumber = Len(form.steps)
            THEN consolidateFormData(stored, formId, Len(form.steps))
            ELSE stored
    IN  IF DOMAIN validation.errors # {}
        THEN Outcome(sess, renderStepWithErrors(stepNumber, formData,
                               validation.errors, validation.errorSummaryList,
                               FALSE))
        ELSE Outcome(consolidated,
                     handleConditionalNavigation(action, stepNumber,
                         Len(form.steps), currentStep, form.steps, formData))

getFormSuccess(sess, formId) ==
    IF formId # LegalAidFormId THEN Outcome(sess, ErrorResponse(404))
    ELSE Outcome(sess, RenderSuccess(getSessionData(sess, formKey(formId))))

\* A GET handler that shows the first step for a step number out of range.
handleGetClamping(sess, form, stepNumber) ==
    Outcome(sess, RenderStep(IF isValidStepNumber(form, stepNumber)
                             THEN stepNumber ELSE 1,
                             getSessionData(sess, getSessionKey(LibFormId, "data")),
                             FALSE))

\* WizardController.handleGet
handleGet(sess, form, stepNumber) ==
    IF ~isValidStepNumber(form, stepNumber)
    THEN Outcome(sess, ErrorResponse(400))
    ELSE Outcome(sess, RenderStep(stepNumber,
                           getSessionData(sess, getSessionKey(LibFormId, "data")),
                           form.steps[stepNumber].isTerminalStep))

\* A handler that merges the step data into the session before it validates.
handlePostStoringFirst(sess, form, stepNumber, body, action) ==
    IF ~isValidStepNumber(form, stepNumber)
    THEN Outcome(sess, ErrorResponse(400))
    ELSE
    LET currentStep == form.steps[stepNumber]
        stepData == extractStepFields(currentStep.fields, sanitizeFormData(body))
        errors == validateStep(currentStep.fields, stepData)
        sessionKey == getSessionKey(LibFormId, "data")
        mergedData == assign(getSessionData(sess, sessionKey), stepData)
        stored == storeSessionData(sess, sessionKey, mergedData)
    IN  IF DOMAIN errors # {}
        THEN Outcome(stored, renderStepWithErrors(stepNumber, stepData, errors,
                                 createErrorSummary(currentStep.fields, errors),
                                 currentStep.isTerminalStep))
        ELSE Outcome(stored, handleNavigation(form, action, stepNumber, mergedData))

\* WizardController.handlePost
handlePost(sess, form, stepNumber, body, action) ==
    IF ~isValidStepNumber(form, stepNumber)
    THEN Outcome(sess, ErrorResponse(400))
    ELSE
    LET currentStep == form.steps[stepNumber]
        stepData == extractStepFields(currentStep.fields, sanitizeFormData(body))
        errors == validateStep(currentStep.fields, stepData)
        sessionKey == getSessionKey(LibFormId, "data")
        mergedData == assign(getSessionData(sess, sessionKey), stepData)
    IN  IF DOMAIN errors # {}
        THEN Outcome(sess, renderStepWithErrors(stepNumber, stepData, errors,
                               createErrorSummary(currentStep.fields, errors),
                               currentStep.isTerminalStep))
        ELSE Outcome(storeSessionData(sess, sessionKey, mergedData),
                     handleNavigation(form, action, stepNumber, mergedData))

\* WizardController.handleSuccess (no successPath configured)
handleSuccess(sess) ==
    Outcome(sess, RenderSuccess(getSessionData(sess, getSessionKey(LibFormId, "data"))))

(***************************************************************************)
(* The state machine.  A request is answered in one step; the store a      *)
(* handler leaves is the next session, and `last` records which request    *)
(* was answered and how.                                                   *)
(***************************************************************************)
NothingEntered == [present |-> FALSE, data |-> EmptyData]

\* How a response ends the request.
outcomeOf(res) ==
    CASE res.kind = "render" -> IF res.status = 400 THEN "rejected" ELSE "render"
      [] res.kind = "redirect" -> res.target
      [] res.kind = "error" -> "error"
      [] OTHER -> "none"

\* A POST that passed validation: it was answered by a redirect or not at all.
Accepted(res) == res.kind \in {"redirect", "none"}

Exchange(kind, res) == [kind |-> kind, outcome |-> outcomeOf(res)]

\* The request bodies of every step of every form, computed once.
BodiesOf ==
    [form \in Configurations |->
        [n \in 1..Len(form.steps) |-> Bodies(form.steps[n].fields)]]

StepNumbers(form) == (1 - StepMargin)..(Len(form.steps) + StepMargin)

\* The two requests of a double submit.
Requests == {"first", "second"}
Waiting ==
    [pc |-> "waiting", step |-> 0, action |-> "", body |-> EmptyData,
     reqSession |-> EmptySession]
NoneInFlight == [r \in Requests |-> Waiting]

Init ==
    /\ mount \in {"app", "lib"}
    /\ wizardForm \in ActiveForms(mount)
    /\ session = EmptySession
    /\ entered = NothingEntered
    /\ last = Exchange("start", NoResponse)
    /\ inflight = NoneInFlight

Answer(kind, step, body, outcome) ==
    /\ session' = outcome.session
    /\ last' = Exchange(kind, outcome.response)
    /\ entered' = IF kind = "POST" /\ step = 1 /\ Accepted(outcome.response)
                  THEN [present |-> TRUE, data |-> body]
                  ELSE entered
    /\ UNCHANGED <<wizardForm, mount, inflight>>

GetDynamicForm ==
    /\ mount = "app"
    /\ \/ Answer("GET", 0, EmptyData,
                 getDynamicForm(session, wizardForm, "unknown-form", 1))
       \/ \E stepNumber \in StepNumbers(wizardForm) :
             Answer("GET", stepNumber, EmptyData,
                    getDynamicForm(session, wizardForm, LegalAidFormId, stepNumber))

PostDynamicForm ==
    /\ mount = "app"
    /\ \/ Answer("POST", 0, EmptyData,
                 postDynamicForm(session, wizardForm, "unknown-form", 1,
                                 EmptyData, "next"))
       \/ \E stepNumber \in StepNumbers(wizardForm) \ (1..Len(wizardForm.steps)) :
             Answer("POST", stepNumber, EmptyData,
                    postDynamicForm(session, wizardForm, LegalAidFormId,
                                    stepNumber, EmptyData, "next"))
       \/ \E stepNumber \in 1..Len(wizardForm.steps), action \in Actions :
             \E body \in BodiesOf[wizardForm][stepNumber] :
                 Answer("POST", stepNumber, body,
                        postDynamicForm(session, wizardForm, LegalAidFormId,
                                        stepNumber, body, action))

GetFormSuccess ==
    /\ mount = "app"
    /\ \E formId \in FormIds :
          Answer("SUCCESS", 0, EmptyData, getFormSuccess(session, formId))

\* handleWizardNavigation called for a step of the form with validated form data
HandleWizardNavigation ==
    /\ mount = "app"
    /\ \E stepNumber \in 1..Len(wizardForm.steps), action \in Actions :
          \E body \in BodiesOf[wizardForm][stepNumber] :
              LET fields == wizardForm.steps[stepNumber].fields
                  formData == extractAndConvertFormData(body, fields)
              IN  /\ DOMAIN validateStepData(fields, formData).errors = {}
                  /\ Answer("NAVIGATE", stepNumber, body,
                            Outcome(session,
                                    handleWizardNavigation(session, wizardForm,
                                        LegalAidFormId, action, stepNumber, formData)))

HandleGet ==
    /\ mount = "lib"
    /\ \E stepNumber \in StepNumbers(wizardForm) :
          Answer("GET", stepNumber, EmptyData,
                 handleGet(session, wizardForm, stepNumber))

HandlePost ==
    /\ mount = "lib"
    /\ \/ \E stepNumber \in StepNumbers(wizardForm) \ (1..Len(wizardForm.steps)) :
             Answer("POST", stepNumber, EmptyData,
                    handlePost(session, wizardForm, stepNumber, EmptyData, "next"))
       \/ \E stepNumber \in 1..Len(wizardForm.steps), action \in Actions :
             \E body \in BodiesOf[wizardForm][stepNumber] :
                 Answer("POST", stepNumber, body,
                        handlePost(session, wizardForm, stepNumber, body, action))

HandleSuccess ==
    /\ mount = "lib"
    /\ Answer("SUCCESS", 0, EmptyData, handleSuccess(session))

Next ==
    \/ GetDynamicForm
    \/ PostDynamicForm
    \/ GetFormSuccess
    \/ HandleWizardNavigation
    \/ HandleGet
    \/ HandlePost
    \/ HandleSuccess

Spec == Init /\ [][Next]_vars

(***************************************************************************)
(* Two overlapping POSTs of one session.  The handlers are synchronous, so *)
(* a handler runs to its end once started; what overlaps is the life of    *)
(* req.session: the session middleware gives each request its own copy of  *)
(* the stored session when the request arrives and writes the copy back    *)
(* when the response ends, if the handler changed it.                      *)
(***************************************************************************)
\* The actions a double submit carries.
RacingActions == {"next", "submit"}

\* The sessions a double submit may find: an empty one, or one in which a
\* step has been submitted.
SessionsBefore(router, form) ==
    {EmptySession}
    \cup UNION {{(IF router = "app"
                  THEN postDynamicForm(EmptySession, form, LegalAidFormId, m, b, "next")
                  ELSE handlePost(EmptySession, form, m, b, "next")).session :
                     b \in BodiesOf[form][m]} : m \in 1..Len(form.steps)}

InitConcurrent ==
    /\ mount \in {"app", "lib"}
    /\ wizardForm \in ActiveForms(mount)
    /\ session \in SessionsBefore(mount, wizardForm)
    /\ entered = NothingEntered
    /\ last = Exchange("start", NoResponse)
    /\ inflight = NoneInFlight

\* The request arrives: the session middleware loads req.session.
Receive(r) ==
    /\ inflight[r].pc = "waiting"
    /\ r = "second" => inflight["first"].pc # "waiting"
    /\ \E stepNumber \in 1..Len(wizardForm.steps), action \in RacingActions :
          \E body \in BodiesOf[wizardForm][stepNumber] :
              inflight' = [inflight EXCEPT ![r] =
                              [pc |-> "received", step |-> stepNumber,
                               action |-> action, body |-> body,
                               reqSession |-> session]]
    /\ UNCHANGED <<wizardForm, mount, session, entered, last>>

\* The handler runs on req.session and the response ends: the session is
\* saved if the handler changed it, replacing what the store held.
Respond(r) ==
    /\ inflight[r].pc = "received"
    /\ LET req == inflight[r]
           outcome == IF mount = "app"
                      THEN postDynamicForm(req.reqSession, wizardForm, LegalAidFormId,
                                           req.step, req.body, req.action)
                      ELSE handlePost(req.reqSession, wizardForm, req.step,
                                      req.body, req.action)
       IN  /\ session' = IF outcome.session # req.reqSession
                         THEN outcome.session ELSE session
           /\ last' = Exchange("POST", outcome.response)
           /\ inflight' = [inflight EXCEPT ![r].pc = "answered"]
    /\ UNCHANGED <<wizardForm, mount, entered>>

NextConcurrent == \E r \in Requests : Receive(r) \/ Respond(r)

SpecConcurrent == InitConcurrent /\ [][NextConcurrent]_vars

(***************************************************************************)
(* Requests and outcomes at the current session, for the properties.       *)
(***************************************************************************)
StepCount == Len(wizardForm.steps)

fieldsOf(n) == wizardForm.steps[n].fields
fieldNames(n) == {fieldsOf(n)[i].name : i \in 1..Len(fieldsOf(n))}
\* The date fields of step n.
DateFields(n) == {fieldsOf(n)[i].name : i \in {j \in 1..Len(fieldsOf(n)) :
                                                  fieldsOf(n)[j].type = "date"}}

\* The fields of step n that the mounted router's validator refuses in body.
FailingFields(n, body) ==
    IF mount = "app"
    THEN LET data == extractAndConvertFormData(body, fieldsOf(n))
         IN  {fieldsOf(n)[i].name : i \in
                 {j \in 1..Len(fieldsOf(n)) :
                     \E k \in 1..Len(failingFields(fieldsOf(n), data)) :
                         failingFields(fieldsOf(n), data)[k] = j}}
    ELSE LET data == extractStepFields(fieldsOf(n), sanitizeFormData(body))
         IN  {fieldsOf(n)[i].name : i \in
                 {j \in 1..Len(fieldsOf(n)) :
                     validateField(fieldsOf(n)[j],
                                   prop(data, fieldsOf(n)[j].name)) # ""}}

ValidBodies(n) == {b \in BodiesOf[wizardForm][n] : FailingFields(n, b) = {}}
InvalidBodies(n) == BodiesOf[wizardForm][n] \ ValidBodies(n)

\* The outcome of POSTing body to step n with the action, from the current session.
Posted(n, action, body) ==
    IF mount = "app"
    THEN postDynamicForm(session, wizardForm, LegalAidFormId, n, body, action)
    ELSE handlePost(session, wizardForm, n, body, action)

\* The same POST answered from another session store.
PostedFrom(sess, n, action, body) ==
    IF mount = "app"
    THEN postDynamicForm(sess, wizardForm, LegalAidFormId, n, body, action)
    ELSE handlePost(sess, wizardForm, n, body, action)

\* The response of the resolver with the global rules, for validated data.
Navigated(n, action, body) ==
    handleWizardNavigation(session, wizardForm, LegalAidFormId, action, n,
                           extractAndConvertFormData(body, fieldsOf(n)))

\* The responses a forward action can get at step n for valid data: from the
\* POST handler of the mounted router and, in the application, from
\* handleWizardNavigation.
ForwardResponses(n) ==
    {Posted(n, a, b).response : a \in ForwardActions, b \in ValidBodies(n)}
    \cup (IF mount = "app"
          THEN {Navigated(n, a, b) : a \in ForwardActions, b \in ValidBodies(n)}
          ELSE {})

IsStepRedirect(res) == res.kind = "redirect" /\ res.target = "step"

\* The consolidated view the success page reads.
SuccessView(sess) ==
    IF mount = "app" THEN getFormSuccess(sess, LegalAidFormId).response.formData
    ELSE handleSuccess(sess).response.formData

\* The data all steps have stored, as the global rules see it.
AllStoredData == getConsolidatedFormData(session, LegalAidFormId, StepCount)

(***************************************************************************)
(* Properties.                                                             *)
(***************************************************************************)

\* C1: a POST whose data fails validation leaves the session store as it
\* was: no per-step slot and no consolidated record is written or modified,
\* whatever the action and whatever was stored before.
C1_RejectedPostLeavesSession ==
    [][(last'.kind = "POST" /\ last'.outcome = "rejected") => session' = session]_vars

\* A POST was rejected while the session already held stored answers.
C1_Witness ==
    /\ last.kind = "POST"
    /\ last.outcome = "rejected"
    /\ session # EmptySession

\* C2: for a forward action on valid data, the step redirected to is a step
\* number in [1, stepCount] and is never the current step, whether the target
\* comes from a global rule, a step-level map or sequential advance.
C2_RedirectInRangeNotCurrent ==
    \A n \in 1..StepCount : \A res \in ForwardResponses(n) :
        IsStepRedirect(res) => res.step \in 1..StepCount /\ res.step # n

\* C3: a forward action on valid data never redirects to a step of lower
\* index than the current step unless that step is a termination step.
C3_NoBackwardRedirect ==
    \A n \in 1..StepCount : \A res \in ForwardResponses(n) :
        (IsStepRedirect(res) /\ res.step \in 1..StepCount /\ res.step < n)
            => wizardForm.steps[res.step].isTerminationStep

\* C4: when global rules A and B both match the stored data and A's highest
\* referenced step index is greater than B's, evaluateGlobalNavigation
\* returns A's target, wherever A and B are declared.
C4_LatestStepRuleSelected ==
    LET rules == wizardForm.globalConditionalNavigation
        rank(i) == getMaxStepIndexFromRule(rules[i], wizardForm.steps)
    IN  \A A \in 1..Len(rules), B \in 1..Len(rules) :
            (/\ evaluateRule(rules[A], AllStoredData)
             /\ evaluateRule(rules[B], AllStoredData)
             /\ rank(A) > rank(B))
                => evaluateGlobalNavigation(rules, AllStoredData, wizardForm.steps)
                       = Target(rules[A].targetStepId)

\* C5: when a global rule with a single condition on a field of the current
\* step matches the value just submitted and targets a later step, a valid
\* POST of that step with action next redirects to the rule's target step.
C5_PostFollowsGlobalRule ==
    mount = "app" =>
        \A n \in 1..StepCount : \A b \in ValidBodies(n) :
            LET rules == wizardForm.globalConditionalNavigation
                data == extractAndConvertFormData(b, fieldsOf(n))
            IN  \A r \in 1..Len(rules) :
                    (/\ Len(rules[r].conditions) = 1
                     /\ rules[r].conditions[1].stepId = wizardForm.steps[n].id
                     /\ rules[r].conditions[1].fieldName \in fieldNames(n)
                     /\ evaluateRule(rules[r], data)
                     /\ findStepIndexById(wizardForm.steps, rules[r].targetStepId) > n)
                        => Posted(n, "next", b).response
                               = RedirectStep(findStepIndexById(wizardForm.steps,
                                                                rules[r].targetStepId))

\* C6: a valid POST of a step flagged as a termination step is answered
\* with the exit redirect, for every action, and never with a redirect to
\* another wizard step.
C6_TerminationStepExits ==
    \A n \in 1..StepCount :
        wizardForm.steps[n].isTerminationStep =>
            \A a \in Actions, b \in ValidBodies(n) :
                Posted(n, a, b).response = RedirectExit

\* C7: from any session state, submitting the same valid data for step n a
\* second time leaves the per-step slots and the consolidated record exactly
\* as the first submission left them.
C7_ResubmissionIdempotent ==
    \A n \in 1..StepCount : \A a \in Actions, b \in ValidBodies(n) :
        PostedFrom(Posted(n, a, b).session, n, a, b).session
            = Posted(n, a, b).session

\* A valid POST has been stored, and sending it once more changes nothing.
C7_Witness ==
    /\ last.kind = "POST"
    /\ last.outcome \in {"step", "success"}
    /\ session # EmptySession
    /\ \E n \in 1..StepCount : \E a \in Actions, b \in ValidBodies(n) :
           /\ Posted(n, a, b).session = session
           /\ Accepted(Posted(n, a, b).response)

\* A field of step 1 that a later step declares too: the later step's
\* answer replaces it in the consolidated view.
DeclaredLater(f) == \E n \in 2..StepCount : f \in fieldNames(n)

\* How a submitted value is carried to the consolidated view: the
\* application joins a list with ", ", the library trims surrounding blanks.
Carried(v) ==
    IF mount = "app"
    THEN (IF isArray(v) THEN Str(join(v.items, ", ")) ELSE v)
    ELSE (IF isArray(v) THEN Arr([i \in 1..Len(v.items) |-> trim(v.items[i])])
          ELSE Str(trim(text(v))))

\* The POST just answered completed the wizard after step 1 was submitted.
Completes == last'.kind = "POST" /\ last'.outcome = "success" /\ entered'.present

EnteredKeys(n, body) == {k \in DOMAIN body : k \notin DateFields(n)}

\* The keys under which a form shows what was submitted under key k: k
\* itself, and for the component of a date field also name_part and
\* name[part], the keys processDateField and extractStepFields write.
ShownKeys(n, k) ==
    {k} \cup UNION {{f \o "_" \o part, f \o "[" \o part \o "]"} :
                        <<f, part>> \in {x \in DateFields(n) \X DateParts :
                                            k = x[1] \o "-" \o x[2]}}

\* The re-render of step n with an error for each failing field of body; the
\* error-summary entry of a date field may link to its day component.
RerenderedWithErrors(res, n, body) ==
    /\ res.kind = "render"
    /\ res.status = 400
    /\ res.target = "step"
    /\ res.step = n
    /\ \A f \in FailingFields(n, body) :
           /\ f \in DOMAIN res.inputErrors
           /\ \E j \in 1..Len(res.errorSummaryList) :
                  \/ res.errorSummaryList[j].href = "#" \o f
                  \/ /\ f \in DateFields(n)
                     /\ res.errorSummaryList[j].href = "#" \o f \o "-day"

\* C9: on a validation failure the response re-renders step n with status
\* 400, its form data hold every value just submitted, and every failing
\* field has an entry in the error mapping and an error-summary entry
\* linking to it.
C9_RerenderExactInput ==
    \A n \in 1..StepCount : \A a \in Actions, b \in InvalidBodies(n) :
        LET res == Posted(n, a, b).response
        IN  /\ RerenderedWithErrors(res, n, b)
            /\ \A k \in EnteredKeys(n, b) :
                   \E j \in ShownKeys(n, k) \cap DOMAIN res.formData :
                       res.formData[j] = b[k]

\* C10: a GET of step 1 leaves no session data of the form: every per-step
\* slot and the consolidated record are cleared.
C10_GetStepOneClears ==
    IF mount = "app"
    THEN getDynamicForm(session, wizardForm, LegalAidFormId, 1).session = EmptySession
    ELSE handleGet(session, wizardForm, 1).session = EmptySession

\* The GET of step n answered from the current session.
Got(n) ==
    IF mount = "app" THEN getDynamicForm(session, wizardForm, LegalAidFormId, n)
    ELSE handleGet(session, wizardForm, n)

\* The ids of the steps a routing rule selects for valid data of step n:
\* the target of the step's navigation map, and the target of the global
\* rules for the stored answers with and without the data just submitted.
SelectedTargets(n, body) ==
    LET data == IF mount = "app"
                THEN extractAndConvertFormData(body, fieldsOf(n))
                ELSE assign(getSessionData(session, getSessionKey(LibFormId, "data")),
                            extractStepFields(fieldsOf(n), sanitizeFormData(body)))
        stepLevel == IF mount = "app"
                     THEN determineNextStep(wizardForm.steps[n], data)
                     ELSE WizardNavigator_determineNextStep(wizardForm.steps[n], data)
        rules == wizardForm.globalConditionalNavigation
        globals == {evaluateGlobalNavigation(rules, d, wizardForm.steps) :
                       d \in {AllStoredData,
                              getConsolidatedFormData(session, LegalAidFormId, n),
                              assign(AllStoredData, data)}}
    IN  {t.id : t \in {x \in {stepLevel} \cup globals : x.found}}

\* C11: a forward action on valid data redirects to a step flagged as a
\* termination step only when a routing rule selected that step; sequential
\* advance (current step + 1) never lands on a termination step.
C11_TerminationOnlyByRule ==
    \A n \in 1..StepCount : \A a \in ForwardActions, b \in ValidBodies(n) :
        \A res \in {Posted(n, a, b).response}
                   \cup (IF mount = "app" THEN {Navigated(n, a, b)} ELSE {}) :
            (/\ IsStepRedirect(res)
             /\ res.step \in 1..StepCount
             /\ wizardForm.steps[res.step].isTerminationStep)
                => wizardForm.steps[res.step].id \in SelectedTargets(n, b)

\* C12: the GET of a step flagged isTerminationStep renders it marked as
\* terminal, so that no next action is offered.
C12_TerminationStepRenderedTerminal ==
    mount = "app" =>
        \A n \in 1..StepCount :
            wizardForm.steps[n].isTerminationStep =>
                /\ Got(n).response.kind = "render"
                /\ Got(n).response.isTerminalStep

\* A submitted value that counts as blank: absent from the request, an empty
\* or whitespace-only string, or an empty list.
Blank(body, f) ==
    \/ f \notin DOMAIN body
    \/ isString(body[f]) /\ trim(text(body[f])) = ""
    \/ isArray(body[f]) /\ Len(body[f].items) = 0

\* C13: every required non-date field whose submitted value is absent, an
\* empty or whitespace-only string or (for checkboxes) an empty list gets a
\* validation error, so the POST is answered with the step rendered again
\* with that error and the session keeps what it held.
C13_BlankRequiredFieldRejected ==
    \A n \in 1..StepCount : \A a \in Actions, b \in BodiesOf[wizardForm][n] :
        \A i \in 1..Len(fieldsOf(n)) :
            (/\ fieldsOf(n)[i].required
             /\ fieldsOf(n)[i].type # "date"
             /\ Blank(b, fieldsOf(n)[i].name))
                => /\ Posted(n, a, b).response.kind = "render"
                   /\ Posted(n, a, b).response.status = 400
                   /\ fieldsOf(n)[i].name \in DOMAIN Posted(n, a, b).response.inputErrors
                   /\ Posted(n, a, b).session = session

\* What the session sess holds for step n: the step's slot in the
\* application, the one merged record in the library.
StoredStep(sess, n) ==
    IF mount = "app" THEN getSessionData(sess, stepKey(LegalAidFormId, n))
    ELSE getSessionData(sess, getSessionKey(LibFormId, "data"))

\* The component of date field f that body carries, blank when it has none.
Component(body, f, part) ==
    IF (f \o "-" \o part) \in DOMAIN body
    THEN trim(stringOrEmpty(body[f \o "-" \o part])) ELSE ""

\* C14: a date field submitted with day and month but no year fails
\* validation; submitted with all three components non-blank it passes, the
\* POST is accepted and the data stored for the step holds the one composed
\* date value under the field's name.
C14_DateTriple ==
    \A n \in 1..StepCount : \A b \in BodiesOf[wizardForm][n] : \A f \in DateFields(n) :
        /\ (/\ Component(b, f, "day") # ""
            /\ Component(b, f, "month") # ""
            /\ (f \o "-year") \notin DOMAIN b)
               => /\ f \in FailingFields(n, b)
                  /\ Posted(n, "next", b).response.status = 400
        /\ (\A part \in DateParts : Component(b, f, part) # "")
               => /\ f \notin FailingFields(n, b)
                  /\ Accepted(Posted(n, "next", b).response)
                  /\ f \in DOMAIN StoredStep(Posted(n, "next", b).session, n)
                  /\ StoredStep(Posted(n, "next", b).session, n)[f]
                        = Str(dateStringFromThreeFields(Component(b, f, "day"),
                                                        Component(b, f, "month"),
                                                        Component(b, f, "year")))

\* A response the specification allows for a POST: the step rendered again
\* with errors, or a redirect to a step, to the success view or to the exit.
IsPostOutcome(res) ==
    \/ res.kind = "render" /\ res.status = 400 /\ DOMAIN res.inputErrors # {}
    \/ res.kind = "redirect" /\ res.target \in {"step", "success", "exit"}

\* C15: every POST of a step with an in-range step number is answered, by a
\* render with errors or by a redirect, for every action value and step
\* position: action previous at step 1, action next at the last step and
\* action submit before the last step included.
C15_EveryPostAnswered ==
    \A n \in 1..StepCount : \A a \in Actions, b \in BodiesOf[wizardForm][n] :
        IsPostOutcome(Posted(n, a, b).response)

\* C16: when no global rule and no step-level navigation entry matches, a
\* valid POST with a forward action redirects to step n + 1 from a step
\* before the last, and from the last step it ends the wizard with a
\* redirect that leaves the steps.
C16_SequentialFallback ==
    \A n \in 1..StepCount : \A a \in ForwardActions, b \in ValidBodies(n) :
        SelectedTargets(n, b) = {} =>
            IF n < StepCount
            THEN Posted(n, a, b).response = RedirectStep(n + 1)
            ELSE /\ Posted(n, a, b).response.kind = "redirect"
                 /\ Posted(n, a, b).response.target # "step"

\* C17: a forward action on valid data makes progress: every redirect to a
\* step other than a termination step goes to a strictly higher step number
\* than the current one, so submitting step after step meets no step twice
\* and ends within stepCount submissions.
C17_ForwardProgress ==
    \A n \in 1..StepCount : \A res \in ForwardResponses(n) :
        (/\ IsStepRedirect(res)
         /\ ~(res.step \in 1..StepCount /\ wizardForm.steps[res.step].isTerminationStep))
            => res.step > n

\* The GET of step n answered from the session sess.
GotFrom(sess, n) ==
    IF mount = "app" THEN getDynamicForm(sess, wizardForm, LegalAidFormId, n)
    ELSE handleGet(sess, wizardForm, n)

\* C18: once a POST of step n (n > 1, the GET of step 1 being the restart)
\* has been accepted without completing the wizard, the GET of step n in
\* the session it leaves renders the step prefilled with the answers stored
\* for step n.
C18_GetPrefillsStoredAnswers ==
    \A n \in 2..StepCount : \A a \in Actions, b \in ValidBodies(n) :
        LET posted == Posted(n, a, b)
            got == GotFrom(posted.session, n).response
        IN  (Accepted(posted.response) /\ posted.response # RedirectSuccess)
                => /\ got.kind = "render"
                   /\ \A k \in DOMAIN StoredStep(posted.session, n) :
                          /\ k \in DOMAIN got.formData
                          /\ got.formData[k] = StoredStep(posted.session, n)[k]

\* The union of the per-step slots 1..stepCount of sess, the slot of the
\* later step giving the value of a key that several slots hold.
SlotUnion(sess) ==
    LET slot(n) == getSessionData(sess, stepKey(LegalAidFormId, n))
        holders(k) == {n \in 1..StepCount : k \in DOMAIN slot(n)}
        latest(k) == CHOOSE n \in holders(k) : \A m \in holders(k) : m <= n
    IN  [k \in UNION {DOMAIN slot(n) : n \in 1..StepCount} |-> slot(latest(k))[k]]

\* The record the success view reads, absent or present in sess.
HasRecord(sess) ==
    IF mount = "app" THEN formKey(LegalAidFormId) \in DOMAIN sess
    ELSE getSessionKey(LibFormId, "data") \in DOMAIN sess

\* C19: whenever a POST is answered with the redirect to the success view,
\* the session it leaves holds the consolidated record: in the application
\* the union of the per-step slots 1..stepCount as they are stored then, the
\* slot of this request included; in the library, which keeps no per-step
\* slots, the one merged record with every key it held before.
C19_SuccessAfterConsolidation ==
    [][(last'.kind = "POST" /\ last'.outcome = "success") =>
          /\ HasRecord(session')
          /\ mount = "app" =>
                 getSessionData(session', formKey(LegalAidFormId)) = SlotUnion(session')
          /\ mount = "lib" =>
                 DOMAIN getSessionData(session, getSessionKey(LibFormId, "data"))
                     \subseteq DOMAIN getSessionData(session', getSessionKey(LibFormId, "data"))]_vars

\* The application has just redirected to the success view, and the record
\* it wrote unites the answers of several steps.
C19_Witness ==
    /\ mount = "app"
    /\ last.kind = "POST"
    /\ last.outcome = "success"
    /\ HasRecord(session)
    /\ Cardinality(DOMAIN getSessionData(session, formKey(LegalAidFormId))) >= 2
    /\ getSessionData(session, formKey(LegalAidFormId)) = SlotUnion(session)

\* The references of a form definition that name no step of it: the target
\* of a global rule, the step of a rule's condition, and the target of a
\* step-level navigation entry, the "default" entry included.
DanglingReferences(form) ==
    LET ids == {form.steps[i].id : i \in 1..Len(form.steps)}
        rules == form.globalConditionalNavigation
        targets == {rules[r].targetStepId : r \in 1..Len(rules)}
        conditionSteps == UNION {{rules[r].conditions[c].stepId :
                                     c \in 1..Len(rules[r].conditions)} :
                                 r \in 1..Len(rules)}
        stepTargets == UNION {UNION {{nav[e].map[v] : v \in DOMAIN nav[e].map} :
                                        e \in 1..Len(nav)} :
                                 nav \in {form.steps[i].conditionalNavigation :
                                             i \in 1..Len(form.steps)}}
    IN  (targets \cup conditionSteps \cup stepTargets) \ ids

\* C20: a definition with a dangling reference fails to load, so the form a
\* router serves requests from has none.
C20_ActiveFormHasNoDanglingReference ==
    DanglingReferences(wizardForm) = {}

\* The step numbers a request may carry that lie outside [1, stepCount].
OutOfRange == StepNumbers(wizardForm) \ (1..StepCount)

\* The bodies a request with a step number out of range may carry: the body
\* of any step of the form, or none.
AnyBodies == {EmptyData} \cup UNION {BodiesOf[wizardForm][m] : m \in 1..StepCount}

\* C21: a GET or POST whose step number lies outside [1, stepCount] is
\* answered with status 400 and nothing else happens: the session store is
\* the one the request found, whatever the body and the action.
C21_OutOfRangeStepRejected ==
    \A n \in OutOfRange :
        /\ Got(n) = Outcome(session, ErrorResponse(400))
        /\ \A a \in Actions, b \in AnyBodies :
               Posted(n, a, b) = Outcome(session, ErrorResponse(400))

\* The library has just refused a POST for its step number - its only error
\* answer to a POST - in a session that holds answers.
C21_Witness ==
    /\ mount = "lib"
    /\ last.kind = "POST"
    /\ last.outcome = "error"
    /\ session # EmptySession
    /\ OutOfRange # {}

\* The keys under which the answers of step m are stored: its field names
\* and, for a date field, the keys of its components.
AnswerKeys(m) ==
    fieldNames(m)
    \cup {f \o "_" \o part : f \in DateFields(m), part \in DateParts}
    \cup {f \o "[" \o part \o "]" : f \in DateFields(m), part \in DateParts}

\* The stored answers of step m in sess: the step's slot in the application,
\* the step's keys of the one merged record in the library.
StepAnswers(sess, m) ==
    IF mount = "app" THEN getSessionData(sess, stepKey(LegalAidFormId, m))
    ELSE LET record == getSessionData(sess, getSessionKey(LibFormId, "data"))
         IN  [k \in AnswerKeys(m) \cap DOMAIN record |-> record[k]]

\* C22: a POST of step n that passes validation leaves the stored answers of
\* every other step as they were before the request.
C22_OtherStepsUntouched ==
    \A n \in 1..StepCount : \A a \in Actions, b \in ValidBodies(n) :
        \A m \in (1..StepCount) \ {n} :
            StepAnswers(Posted(n, a, b).session, m) = StepAnswers(session, m)

\* The answers a POST of step n carrying body stores for the step.
StoredForm(n, body) ==
    IF mount = "app"
    THEN convertFormDataForSession(extractAndConvertFormData(body, fieldsOf(n)))
    ELSE extractStepFields(fieldsOf(n), sanitizeFormData(body))

\* Both requests of the double submit were POSTs of the same step with valid
\* data, and both have been answered.
DoubleSubmitAnswered ==
    /\ \A r \in Requests : inflight[r].pc = "answered"
    /\ inflight["first"].step = inflight["second"].step
    /\ \A r \in Requests : FailingFields(inflight[r].step, inflight[r].body) = {}

\* C23: after two overlapping valid POSTs of the same step n carrying d1 and
\* d2, the stored answers of step n are exactly those of d1 or exactly those
\* of d2, and the answers of every other step are those the session held
\* when the first request arrived.
C23_LastWriteWins ==
    DoubleSubmitAnswered =>
        LET n == inflight["first"].step
        IN  /\ StepAnswers(session, n) \in
                   {StoredForm(n, inflight[r].body) : r \in Requests}
            /\ \A m \in (1..StepCount) \ {n} :
                   StepAnswers(session, m)
                       = StepAnswers(inflight["first"].reqSession, m)

(***************************************************************************)
(* C24.  The visited-steps record.                                         *)
(***************************************************************************)
\* the stored visited record of the form lists the step number
Recorded(sess, stepNumber) ==
    LET data == getSessionData(sess, "wizardForm_" \o LegalAidFormId \o "_visitedSteps")
    IN  /\ hasProperty(data, "steps")
        /\ LET listed == "," \o data.steps.items[1] \o ","
               entry == "," \o ToString(stepNumber) \o ","
           IN  \E i \in 1..(Len(listed) - Len(entry) + 1) :
                   SubSeq(listed, i, i + Len(entry) - 1) = entry

\* C24: the visited-steps record is the set of all step numbers tracked so
\* far: after trackVisitedStep has been called for step a and later for step
\* b the stored record contains both a and b, and tracking a step that is
\* already recorded does not change the record.
C24_VisitedAccumulates ==
    mount = "app" =>
        \A a, b \in 1..StepCount :
            LET first == trackVisitedStep(session, LegalAidFormId, a)
                second == trackVisitedStep(first, LegalAidFormId, b)
            IN  /\ Recorded(second, a)
                /\ Recorded(second, b)
                /\ trackVisitedStep(second, LegalAidFormId, a) = second

(***************************************************************************)
(* C25.  The form builder's validation of step-level navigation targets.   *)
(***************************************************************************)
\* The targets of a configuration's step-level navigation maps that are the
\* id of none of its steps.
DanglingStepTargets(form) ==
    UNION {UNION {{nav[e].map[v] : v \in DOMAIN nav[e].map} : e \in 1..Len(nav)} :
              nav \in {form.steps[i].conditionalNavigation :
                          i \in 1..Len(form.steps)}}
        \ {form.steps[i].id : i \in 1..Len(form.steps)}

\* C25: validateFormConfig reports a configuration as invalid when a step's
\* conditionalNavigation maps a field value to a step id that is not the id
\* of any step of the form.
C25_DanglingTargetReportedInvalid ==
    \A data \in Configurations \cup {wizardForm} :
        DanglingStepTargets(data) # {} => ~validateFormConfig(data).valid

(***************************************************************************)
(* C26.  Global rules before step-level routing.                           *)
(***************************************************************************)
\* C26: when a global rule matches with a target that passes the guard and
\* the step-level navigation map of the current step also matches the
\* submitted value with a different target, the redirect of a valid POST
\* with a forward action goes to the global rule's target.
C26_GlobalRuleTakesPrecedence ==
    mount = "app" =>
        \A n \in 1..StepCount : \A a \in ForwardActions, b \in ValidBodies(n) :
            LET posted == Posted(n, a, b)
                global == processGlobalNavigation(wizardForm,
                              getConsolidatedFormData(posted.session,
                                                      LegalAidFormId, n), a, n)
                stepLevel == determineNextStep(wizardForm.steps[n],
                                 extractAndConvertFormData(b, fieldsOf(n)))
                stepTarget == findStepIndexById(wizardForm.steps, stepLevel.id)
            IN  (/\ ~wizardForm.steps[n].isTerminationStep
                 /\ global.kind = "redirect"
                 /\ stepLevel.found /\ stepTarget > 0
                 /\ stepTarget # global.step)
                    => posted.response = global

(***************************************************************************)
(* C27.  Global rules govern forward actions only.                         *)
(***************************************************************************)
\* C27: for a POST whose action is none of next, continue and submit
\* (previous, or an empty action) the redirect is never taken from a global
\* rule, even when one matches the consolidated data: the answer is the one
\* the same form without its global rules gives.
C27_OtherActionsIgnoreGlobalRules ==
    LET withoutRules == [wizardForm EXCEPT !.globalConditionalNavigation = <<>>]
    IN  \A n \in 1..StepCount :
            \A a \in Actions \ ForwardActions, b \in ValidBodies(n) :
                /\ Posted(n, a, b) =
                       (IF mount = "app"
                        THEN postDynamicForm(session, withoutRules,
                                             LegalAidFormId, n, b, a)
                        ELSE handlePost(session, withoutRules, n, b, a))
                /\ mount = "app" =>
                       Navigated(n, a, b) =
                           handleWizardNavigation(session, withoutRules,
                               LegalAidFormId, a, n,
                               extractAndConvertFormData(b, fieldsOf(n)))

\* handleWizardNavigation has answered, and at some step a global rule
\* matches the consolidated data and would redirect a forward action, while
\* the action previous is redirected elsewhere.
C27_Witness ==
    /\ mount = "app"
    /\ last.kind = "NAVIGATE"
    /\ \E n \in 1..StepCount : \E b \in ValidBodies(n) :
           LET forward == processGlobalNavigation(wizardForm,
                              getConsolidatedFormData(session, LegalAidFormId, n),
                              "next", n)
           IN  /\ forward.kind = "redirect"
               /\ Navigated(n, "previous", b).kind = "redirect"
               /\ Navigated(n, "previous", b) # forward

(***************************************************************************)
(* C28.  Ties between global rules.                                        *)
(***************************************************************************)
\* C28: when two global rules that both match the stored data reference the
\* same latest step index, the one declared first in the configuration is
\* selected: evaluateGlobalNavigation never selects the later of the two.
C28_TieBrokenByDeclarationOrder ==
    LET rules == wizardForm.globalConditionalNavigation
        rank(i) == getMaxStepIndexFromRule(rules[i], wizardForm.steps)
    IN  \A A \in 1..Len(rules), B \in 1..Len(rules) :
            (/\ A < B
             /\ rank(A) = rank(B)
             /\ evaluateRule(rules[A], AllStoredData)
             /\ evaluateRule(rules[B], AllStoredData))
                => selectedRule(rules, AllStoredData, wizardForm.steps) # B

(***************************************************************************)
(* C29.  When a global rule fires.                                         *)
(***************************************************************************)
\* The data mappings a rule is evaluated on: what the steps have stored,
\* with any of the rule's "stepId.fieldName" keys added on top.
RuleData(rule) ==
    LET keys == {rule.conditions[c].stepId \o "." \o rule.conditions[c].fieldName :
                    c \in 1..Len(rule.conditions)}
    IN  {assign(AllStoredData, qualified) :
            qualified \in UNION {[K -> {Str("Yes"), Str("No")}] : K \in SUBSET keys}}

\* The condition is met by the data: the value under "stepId.fieldName" when
\* that key is present, the value under the bare field name otherwise, is
\* the condition's value.
ConditionMatches(condition, data) ==
    LET qualified == condition.stepId \o "." \o condition.fieldName
    IN  IF qualified \in DOMAIN data
        THEN getValueToCheck(data[qualified]) = Str(condition.value)
        ELSE /\ condition.fieldName \in DOMAIN data
             /\ getValueToCheck(data[condition.fieldName]) = Str(condition.value)

\* C29: a global rule fires if and only if every one of its conditions
\* matches, a condition being compared with the value stored under
\* "stepId.fieldName" when that key is present and with the value under the
\* bare field name otherwise; a rule with a condition that does not match
\* never fires.
C29_RuleFiresIffAllConditionsMatch ==
    LET rules == wizardForm.globalConditionalNavigation
    IN  \A r \in 1..Len(rules) : \A data \in RuleData(rules[r]) :
            evaluateRule(rules[r], data)
                <=> \A c \in 1..Len(rules[r].conditions) :
                        ConditionMatches(rules[r].conditions[c], data)

\* handleWizardNavigation has answered from stored answers on which a rule
\* of two conditions has one that matches and one that does not, and on
\* which the rule fires once a "stepId.fieldName" key overrides the bare
\* field name.
C29_Witness ==
    /\ last.kind = "NAVIGATE"
    /\ \E r \in 1..Len(wizardForm.globalConditionalNavigation) :
           LET rule == wizardForm.globalConditionalNavigation[r]
           IN  /\ Len(rule.conditions) = 2
               /\ \A c \in 1..2 : rule.conditions[c].fieldName \in DOMAIN AllStoredData
               /\ \E c, d \in 1..2 :
                      /\ ConditionMatches(rule.conditions[c], AllStoredData)
                      /\ ~ConditionMatches(rule.conditions[d], AllStoredData)
               /\ ~evaluateRule(rule, AllStoredData)
               /\ \E data \in RuleData(rule) : evaluateRule(rule, data)

(***************************************************************************)
(* C30.  Conditions on a multi-select answer of an earlier step.           *)
(***************************************************************************)
\* C30: a condition with expected value v matches a multi-select answer
\* that was submitted and stored in an earlier step whenever the first
\* selected element of the answer is v, also when further elements were
\* selected.
C30_FirstSelectedElementMatches ==
    mount = "app" =>
        \A n \in 1..StepCount : \A b \in ValidBodies(n) :
            \A f \in fieldNames(n) : \A m \in (n + 1)..StepCount :
                LET posted == Posted(n, "next", b)
                    answer == prop(extractAndConvertFormData(b, fieldsOf(n)), f)
                IN  (/\ Accepted(posted.response)
                     /\ isArray(answer)
                     /\ Len(answer.items) > 0)
                        => evaluateRule(
                               Rule("first_selected",
                                    <<Condition(wizardForm.steps[n].id, f,
                                                answer.items[1])>>,
                                    wizardForm.steps[m].id),
                               getConsolidatedFormData(posted.session,
                                                       LegalAidFormId, m))

(***************************************************************************)
(* C31.  The data global rules are evaluated on.                           *)
(***************************************************************************)
\* C31: global rules are evaluated against the full session wizard state:
\* at whatever step n the rules are evaluated, the answer a step m has
\* stored in the session is in the data the rule conditions read, whether m
\* lies before or after n (for a key no other step has stored).
C31_RulesSeeEveryStoredStep ==
    mount = "app" =>
        \A n \in 1..StepCount, m \in 1..StepCount :
            LET slot == getSessionData(session, stepKey(LegalAidFormId, m))
                ruleData == getConsolidatedFormData(session, LegalAidFormId, n)
            IN  \A k \in DOMAIN slot :
                    (\A o \in (1..StepCount) \ {m} :
                        k \notin DOMAIN getSessionData(session,
                                            stepKey(LegalAidFormId, o)))
                        => /\ k \in DOMAIN ruleData
                           /\ ruleData[k] = slot[k]

(***************************************************************************)
(* C32.  The exact entry of a navigation map before its "default".         *)
(***************************************************************************)
\* The targets the two copies of step-level routing choose from the map of
\* entry e of step n alone, for the value submitted for the entry's field.
ChosenFromMap(n, e, value) ==
    LET entry == wizardForm.steps[n].conditionalNavigation[e]
        data == [k \in {entry.field} |-> value]
    IN  {determineNextStepFrom(<<entry>>, data, 1),
         WizardNavigator_determineNextStepFrom(<<entry>>, data, 1)}

\* C32: within one field's step-level navigation map, when the submitted
\* value has its own entry and a "default" entry also exists, the target of
\* the exact entry is chosen (no target at all when that target is empty);
\* the "default" target is chosen only when the submitted value has no
\* entry.
C32_ExactEntryBeforeDefault ==
    \A n \in 1..StepCount :
        \A e \in 1..Len(wizardForm.steps[n].conditionalNavigation) :
            \A value \in UNION {SubmittedValues(fieldsOf(n)[i].type) :
                                    i \in 1..Len(fieldsOf(n))} :
              \A chosen \in ChosenFromMap(n, e, value) :
                LET map == wizardForm.steps[n].conditionalNavigation[e].map
                    key == propertyKey(getValueToCheck(value))
                IN  "default" \in DOMAIN map =>
                        /\ key \in DOMAIN map =>
                               \/ chosen = Target(map[key])
                               \/ map[key] = "" /\ chosen = NoTarget
                        /\ (chosen = Target(map["default"]) /\ key \in DOMAIN map)
                               => map[key] = map["default"]

\* A POST has been answered by a redirect to a step, from a step whose map
\* has an entry for the stored answer and a "default" entry with another
\* target.
C32_Witness ==
    /\ last.kind = "POST"
    /\ last.outcome = "step"
    /\ \E n \in 1..StepCount :
           \E e \in 1..Len(wizardForm.steps[n].conditionalNavigation) :
               LET entry == wizardForm.steps[n].conditionalNavigation[e]
                   stored == StoredStep(session, n)
               IN  /\ "default" \in DOMAIN entry.map
                   /\ entry.field \in DOMAIN stored
                   /\ propertyKey(getValueToCheck(stored[entry.field]))
                          \in DOMAIN entry.map
                   /\ entry.map[propertyKey(getValueToCheck(stored[entry.field]))]
                          # entry.map["default"]

(***************************************************************************)
(* C33.  The order of the error list.                                      *)
(***************************************************************************)
\* C33: the ordered error list returned for a step lists the failing
\* fields, each once, in the order in which the step declares its fields,
\* for every set of failing fields.
C33_ErrorsInDeclarationOrder ==
    \A n \in 1..StepCount : \A a \in Actions, b \in InvalidBodies(n) :
        LET list == Posted(n, a, b).response.errorSummaryList
            declared(j) ==
                {i \in 1..Len(fieldsOf(n)) :
                    list[j].href \in {"#" \o fieldsOf(n)[i].name,
                                      "#" \o fieldsOf(n)[i].name \o "-day"}}
        IN  /\ Len(list) = Cardinality(FailingFields(n, b))
            /\ \A j \in 1..Len(list) : Cardinality(declared(j)) = 1
            /\ UNION {{fieldsOf(n)[i].name : i \in declared(j)} :
                         j \in 1..Len(list)} = FailingFields(n, b)
            /\ \A j \in 1..Len(list), k \in 1..Len(list) :
                   j < k => \A i \in declared(j), l \in declared(k) : i < l

\* A POST has been rejected at a step where a request can fail in two
\* fields at once.
C33_Witness ==
    /\ last.kind = "POST"
    /\ last.outcome = "rejected"
    /\ \E n \in 1..StepCount : \E b \in InvalidBodies(n) :
           /\ Cardinality(FailingFields(n, b)) >= 2
           /\ Len(Posted(n, "next", b).response.errorSummaryList) >= 2

(***************************************************************************)
(* C34.  Fields that never get a validation error.                         *)
(***************************************************************************)
\* C34: a (non-date) field never receives a validation error when it is
\* not required, or when it is required and its submitted value is not
\* blank: validation checks neither the type of the value nor its
\* membership of the options, and skips a non-required empty field.
C34_OnlyBlankRequiredFieldsFail ==
    \A n \in 1..StepCount : \A a \in Actions, b \in BodiesOf[wizardForm][n] :
        \A i \in 1..Len(fieldsOf(n)) :
            (/\ fieldsOf(n)[i].type # "date"
             /\ \/ ~fieldsOf(n)[i].required
                \/ ~Blank(b, fieldsOf(n)[i].name))
                => fieldsOf(n)[i].name \notin DOMAIN Posted(n, a, b).response.inputErrors

(***************************************************************************)
(* C35.  A rule target the guard rejects.                                  *)
(***************************************************************************)
\* The position (in the configuration) of the matching rule of highest
\* priority on the data the rules read at step n, 0 when no rule matches.
HighestMatching(n) ==
    LET rules == wizardForm.globalConditionalNavigation
        data == getConsolidatedFormData(session, LegalAidFormId, n)
        order == sortedRules(rules, wizardForm.steps)
        matches(p) == evaluateRule(rules[order[p]], data)
    IN  IF \E p \in 1..Len(rules) : matches(p)
        THEN order[CHOOSE p \in 1..Len(rules) :
                       matches(p) /\ \A q \in 1..(p - 1) : ~matches(q)]
        ELSE 0

\* The guard rejects the target of rule r at step n: it is the current step,
\* or an earlier step that is no termination step.
RejectedByGuard(r, n) ==
    LET target == findStepIndexById(wizardForm.steps,
                      wizardForm.globalConditionalNavigation[r].targetStepId)
    IN  /\ target > 0
        /\ \/ target = n
           \/ target < n /\ ~wizardForm.steps[target].isTerminationStep

\* C35: when the target of the matching global rule of highest priority is
\* rejected by the guard, a forward action is resolved by the step-level
\* map and sequential advance: no matching rule of lower priority is tried,
\* even when its target would pass the guard.
C35_RejectedTargetFallsThrough ==
    mount = "app" =>
        \A n \in 1..StepCount : \A a \in ForwardActions, b \in ValidBodies(n) :
            (/\ ~wizardForm.steps[n].isTerminationStep
             /\ HighestMatching(n) # 0
             /\ RejectedByGuard(HighestMatching(n), n))
                => Navigated(n, a, b) =
                       handleConditionalNavigation(a, n, StepCount,
                           wizardForm.steps[n], wizardForm.steps,
                           extractAndConvertFormData(b, fieldsOf(n)))

\* handleWizardNavigation has answered at a session where, at some step, the
\* guard rejects the target of the matching rule of highest priority while
\* another matching rule targets a later step.
C35_Witness ==
    /\ mount = "app"
    /\ last.kind = "NAVIGATE"
    /\ \E n \in 1..StepCount :
           /\ ValidBodies(n) # {}
           /\ HighestMatching(n) # 0
           /\ RejectedByGuard(HighestMatching(n), n)
           /\ \E r \in 1..Len(wizardForm.globalConditionalNavigation) :
                  /\ evaluateRule(wizardForm.globalConditionalNavigation[r],
                         getConsolidatedFormData(session, LegalAidFormId, n))
                  /\ findStepIndexById(wizardForm.steps,
                         wizardForm.globalConditionalNavigation[r].targetStepId) > n

(***************************************************************************)
(* C36.  Completion only from the last step.                               *)
(***************************************************************************)
\* C36: the redirect to the success view is produced only by a POST for the
\* last step: no valid POST of an earlier step, with any action, completes
\* the wizard.
C36_SuccessOnlyFromLastStep ==
    \A n \in 1..(StepCount - 1) : \A a \in Actions, b \in ValidBodies(n) :
        Posted(n, a, b).response # RedirectSuccess

(***************************************************************************)
(* C37.  Re-submitting a step without a field.                             *)
(***************************************************************************)
\* C37: after a successful re-submission of step n with data d2 that
\* follows a successful submission d1, the stored answers of the step's
\* fields reflect d2 only: a field that had a value in d1 and is absent
\* from d2 no longer carries a value in the store.
C37_ResubmissionReplacesAnswers ==
    \A n \in 1..StepCount : \A d1 \in ValidBodies(n), d2 \in ValidBodies(n) :
        LET first == Posted(n, "next", d1).session
            second == PostedFrom(first, n, "next", d2).session
        IN  \A f \in fieldNames(n) :
                (/\ f \in DOMAIN d1 /\ ~Blank(d1, f)
                 /\ f \notin DOMAIN d2
                 /\ f \in DOMAIN StoredStep(second, n))
                    => StoredStep(second, n)[f] = Str("")

(***************************************************************************)
(* C38.  Per-step slots are kept.                                          *)
(***************************************************************************)
\* C38: a per-step slot is never removed once written, and only a POST
\* changes what it holds; so the consolidated record built at completion
\* contains the answers of every step that was ever submitted in the
\* session, also of steps the wizard no longer leads through (the value of
\* a key is the one of the latest step that holds it).
C38_SlotsKeptUntilCompletion ==
    [][mount = "app" =>
          LET slotKey(m) == stepKey(LegalAidFormId, m)
              record == getSessionData(session', formKey(LegalAidFormId))
          IN  /\ \A m \in 1..StepCount :
                     slotKey(m) \in DOMAIN session =>
                         /\ slotKey(m) \in DOMAIN session'
                         /\ last'.kind # "POST" => session'[slotKey(m)] = session[slotKey(m)]
              /\ (last'.kind = "POST" /\ last'.outcome = "success") =>
                     \A m \in 1..(StepCount - 1) :
                         \A k \in DOMAIN getSessionData(session, slotKey(m)) :
                             /\ k \in DOMAIN record
                             /\ (\A o \in (m + 1)..StepCount :
                                     k \notin DOMAIN getSessionData(session', slotKey(o)))
                                    => record[k] = session[slotKey(m)][k]]_vars

\* The application has just completed a wizard of at least three steps in a
\* session that holds a slot for every step, and the record has the answers
\* of all of them.
C38_Witness ==
    /\ mount = "app"
    /\ last.kind = "POST"
    /\ last.outcome = "success"
    /\ StepCount >= 3
    /\ \A m \in 1..StepCount :
           /\ stepKey(LegalAidFormId, m) \in DOMAIN session
           /\ DOMAIN session[stepKey(LegalAidFormId, m)] # {}
           /\ DOMAIN session[stepKey(LegalAidFormId, m)]
                  \subseteq DOMAIN getSessionData(session, formKey(LegalAidFormId))

(***************************************************************************)
(* C39.  The two copies of step-level routing.                             *)
(***************************************************************************)
\* C39: the two copies of step-level routing agree: for every step and
\* every form data mapping for its fields (empty-string values, absent
\* fields and maps with empty-string targets included) the library's
\* WizardNavigator.determineNextStep and the application's determineNextStep
\* return the same target step id, or both return null.
C39_RoutingCopiesAgree ==
    \A n \in 1..StepCount : \A formData \in BodiesOf[wizardForm][n] :
        determineNextStep(wizardForm.steps[n], formData)
            = WizardNavigator_determineNextStep(wizardForm.steps[n], formData)

====
